---- MODULE Spec2Model ----
(***************************************************************************)
(* catamap: the definition store (catamap/gamedata.py) and the overmap     *)
(* tile decoder, symbol resolver and grid projector                        *)
(* (catamap/parse_overmap.py), as a state machine.                         *)
(*                                                                         *)
(* A Python dict is a function (its mapping) together with the sequence of *)
(* its keys in insertion order, which is the order a for-loop visits them. *)
(* A missing key is a key outside the DOMAIN.                               *)
(*                                                                         *)
(* Python's None is the string "None".  A JSON string is the string of its *)
(* characters, with one exception that keeps strings and None apart: a     *)
(* JSON string that reads None, 'None, ''None, ... is written with one     *)
(* more leading apostrophe (the JSON string None is "'None").  No          *)
(* definition looks inside such a string, so the JSON string None is an    *)
(* id, a truthy copy-from and a non-None abstract like any other string.   *)
(***************************************************************************)
EXTENDS Integers, Sequences, FiniteSets, TLC

VARIABLES
    data,       \* GameData._data (class attribute): ttype -> dict or list
    torder,     \* the keys of _data in insertion order
    korder,     \* for each ttype of _data that is a dict, its keys in insertion order
    loaded,     \* history: _data as it stood when _resolve_deps was entered
    pc,         \* where the program is
    rpass,      \* _resolve_deps: the pass being run (1 or 2)
    ti,         \* _resolve_deps: index in torder of the ttype being visited
    ki,         \* _resolve_deps: index in korder[ttype] of the tid being visited
    result,     \* the value the last finished operation returned
    log,        \* the warnings and errors logged so far, oldest first
    dirs,       \* the content database: subpath -> the files os.walk lists there
    di,         \* GameData.__init__: which _recurse_load_dir call is running
    fi,         \* _recurse_load_dir: index of the next file of the listing
    jtotal,     \* _recurse_load_dir: files loaded so far
    jfailed,    \* _recurse_load_dir: files that failed so far
    rets,       \* the values the finished _recurse_load_dir calls returned
    omjson,     \* the save file of the overmap tile: what json.load makes of it
    tiles,      \* OvermapTile.tiles (class attribute): z -> idex -> SubmapTile
    rsret,      \* what resolve_symbols returned
    zreq,       \* the z get_overmap was called with
    omap,       \* what get_overmap returned: a sequence of rows (after
                \* render_overmap_ansi: the pairs given to colorize)
    gds,        \* the GameData instances made so far: the attributes each holds itself
    oms,        \* the OvermapTile instances made so far: the attributes each holds itself
    gdseen,     \* history: _data as seen through the first GameData when the second was made
    omseen      \* history: tiles as seen through the first OvermapTile when the second was made

storeVars == <<data, torder, korder>>
resolveVars == <<loaded, rpass, ti, ki>>
loadVars == <<dirs, di, fi, jtotal, jfailed, rets>>

tileVars == <<omjson, tiles, rsret, zreq, omap>>

instVars == <<gds, oms, gdseen, omseen>>

vars == <<storeVars, resolveVars, loadVars, tileVars, instVars, pc, result, log>>

\* Python's None; the JSON string None is "'None" (see above)
None == "None"

\* ------------------------------------------------------------------------
\* Python dict helpers
\* ------------------------------------------------------------------------

EmptyDict == [k \in {} |-> None]

\* d.get(k)
Get(d, k) == IF k \in DOMAIN d THEN d[k] ELSE None

\* the truth value Python gives a string or None
Truthy(v) == v # None /\ v # ""

\* a.update(b), as a new dict
Update(a, b) == [k \in (DOMAIN a) \cup (DOMAIN b) |-> IF k \in DOMAIN b THEN b[k] ELSE a[k]]

\* the set of the elements of a sequence
Range(s) == {s[i] : i \in 1..Len(s)}

\* no overmap tile is involved
NoTile ==
    /\ omjson = [tag |-> "bad", layers |-> <<>>]
    /\ tiles = EmptyDict
    /\ rsret = None
    /\ zreq = 0
    /\ omap = <<>>

\* the first GameData of the process is being constructed, and no
\* OvermapTile has been
FirstGameData ==
    /\ gds = <<[_gamedir |-> "db1"]>>
    /\ oms = <<>>
    /\ gdseen = <<>>
    /\ omseen = <<>>

\* ------------------------------------------------------------------------
\* gamedata.py
\* ------------------------------------------------------------------------

\* C_TYPEMAP: the ttypes stored as a list; every other ttype is a dict
C_TYPEMAP == {"mapgen", "monstergroup", "snippet"}

\* range(16) of the chain walk
MaxDepth == 16

\* WalkDeps with a missing dependency discarding the chain collected so far
RECURSIVE WalkDepsAbort(_, _, _, _)
WalkDepsAbort(d, tdep_id, i, deps) ==
    IF i >= 16 THEN deps
    ELSE IF Truthy(Get(d[tdep_id], "copy-from"))
         THEN LET nextdep_id == d[tdep_id]["copy-from"] IN
              IF nextdep_id \notin DOMAIN d
              THEN <<>>
              ELSE WalkDepsAbort(d, nextdep_id, i + 1, Append(deps, d[nextdep_id]))
         ELSE deps

\* the chain walk of _resolve_deps, from iteration i on: tdep_id is the last
\* dependency collected, deps the records collected so far
RECURSIVE WalkDeps(_, _, _, _)
WalkDeps(d, tdep_id, i, deps) ==
    IF i >= MaxDepth THEN deps
    ELSE IF Truthy(Get(d[tdep_id], "copy-from"))
         THEN LET nextdep_id == d[tdep_id]["copy-from"] IN
              IF nextdep_id \notin DOMAIN d
              THEN deps
              ELSE WalkDeps(d, nextdep_id, i + 1, Append(deps, d[nextdep_id]))
         ELSE deps

\* MergeReversed with the dependencies applied nearest first
RECURSIVE MergeForward(_, _, _)
MergeForward(deps, k, newobj) ==
    IF k = 0 THEN newobj
    ELSE Update(MergeForward(deps, k - 1, newobj), deps[k])

\* for tobj in reversed(deps): newobj.update(tobj), from deps[k] down to deps[1]
RECURSIVE MergeReversed(_, _, _)
MergeReversed(deps, k, newobj) ==
    IF k = 0 THEN newobj
    ELSE MergeReversed(deps, k - 1, Update(newobj, deps[k]))

\* the body of the loop over tid of _resolve_deps: the dict d of one ttype
\* after tid has been visited in pass p
ResolveOne(d, tid, p) ==
    LET titem == d[tid] IN
    IF p = 1 /\ Get(titem, "abstract") = None THEN d
    ELSE IF p = 2 /\ Get(titem, "abstract") # None THEN d
    ELSE IF ~Truthy(Get(titem, "copy-from")) THEN d
    ELSE LET tdep_id == titem["copy-from"] IN
         IF tdep_id \notin DOMAIN d THEN d
         ELSE LET deps == WalkDeps(d, tdep_id, 0, <<d[tdep_id]>>)
                  newobj == Update(MergeReversed(deps, Len(deps), EmptyDict), titem)
              IN  [d EXCEPT ![tid] = newobj]

\* what one visit of the loop over tid logs: the error of a missing
\* copy-from dependency, of tid itself or found during the chain walk
RECURSIVE WalkLog(_, _, _)
WalkLog(d, tdep_id, i) ==
    IF i >= MaxDepth THEN <<>>
    ELSE IF Truthy(Get(d[tdep_id], "copy-from"))
         THEN LET nextdep_id == d[tdep_id]["copy-from"] IN
              IF nextdep_id \notin DOMAIN d
              THEN << <<"error", "missing copy-from dependency", tdep_id, nextdep_id>> >>
              ELSE WalkLog(d, nextdep_id, i + 1)
         ELSE <<>>

ResolveLog(d, tid, p) ==
    LET titem == d[tid] IN
    IF p = 1 /\ Get(titem, "abstract") = None THEN <<>>
    ELSE IF p = 2 /\ Get(titem, "abstract") # None THEN <<>>
    ELSE IF ~Truthy(Get(titem, "copy-from")) THEN <<>>
    ELSE IF titem["copy-from"] \notin DOMAIN d
         THEN << <<"error", "missing copy-from dependency", tid, titem["copy-from"]>> >>
         ELSE WalkLog(d, titem["copy-from"], 0)

\* the first loop position at or after (t, k) that names a tid to visit:
\* list ttypes are skipped, and a dict that is exhausted is left for the next
\* ttype; t = Len(torder) + 1 when the loops are over
RECURSIVE NextPos(_, _, _, _)
NextPos(to, ko, t, k) ==
    IF t > Len(to) THEN <<t, 1>>
    ELSE IF to[t] \in C_TYPEMAP THEN NextPos(to, ko, t + 1, 1)
    ELSE IF k > Len(ko[to[t]]) THEN NextPos(to, ko, t + 1, 1)
    ELSE <<t, k>>

\* _resolve_deps is entered (gamedata.py line 51): pass 1 starts
ResolveDeps ==
    /\ pc = "resolve"
    /\ loaded' = data
    /\ rpass' = 1
    /\ LET pos == NextPos(torder, korder, 1, 1) IN
       /\ ti' = pos[1]
       /\ ki' = pos[2]
    /\ pc' = "visit"
    /\ UNCHANGED <<storeVars, loadVars, tileVars, instVars, result, log>>

\* one iteration of the loop over tid
ResolveVisit ==
    /\ pc = "visit"
    /\ ti <= Len(torder)
    /\ LET ttype == torder[ti]
           tid == korder[ttype][ki]
           pos == NextPos(torder, korder, ti, ki + 1)
       IN  /\ data' = [data EXCEPT ![ttype] = ResolveOne(data[ttype], tid, rpass)]
           /\ log' = log \o ResolveLog(data[ttype], tid, rpass)
           /\ ti' = pos[1]
           /\ ki' = pos[2]
    /\ UNCHANGED <<torder, korder, loaded, pc, rpass, result, loadVars, tileVars, instVars>>

\* the loops of a pass are over: pass 1 calls pass 2, pass 2 returns True
ResolvePassEnd ==
    /\ pc = "visit"
    /\ ti > Len(torder)
    /\ IF rpass = 1
       THEN /\ rpass' = 2
            /\ LET pos == NextPos(torder, korder, 1, 1) IN
               /\ ti' = pos[1]
               /\ ki' = pos[2]
            /\ UNCHANGED <<pc, result>>
       ELSE /\ pc' = "done"
            /\ result' = TRUE
            /\ UNCHANGED <<rpass, ti, ki>>
    /\ UNCHANGED <<storeVars, loaded, loadVars, tileVars, instVars, log>>

\* ------------------------------------------------------------------------
\* gamedata.py: loading.  A file of the listing is a record: name (whether
\* it ends in .json), path, and what json.load makes of it: tag "bad" (open
\* or json.load raises), "object" (a single JSON object, items holds it) or
\* "list" (a JSON array, items holds its elements).  An element is
\* [isobj |-> TRUE, val |-> the object] or, for a JSON value that is no
\* object, [isobj |-> FALSE, val |-> [text |-> its text]].
\* ------------------------------------------------------------------------

\* d[k] = v on a dict
Put(d, k, v) == [x \in (DOMAIN d) \cup {k} |-> IF x = k THEN v ELSE d[x]]

\* one iteration of the loop over tobj of _load_one_json, on the store
\* st = [data, torder, korder, log], for an element that is an object
LoadObj(st, tobj0, fpath) ==
    LET ttype == Get(tobj0, "type")
        log1 == IF ~Truthy(ttype)
                THEN Append(st.log, <<"warning", "type not defined", fpath>>)
                ELSE st.log
        tobj == Put(tobj0, "__loaded_from", fpath)
        fresh == ttype \notin DOMAIN st.data
        data1 == IF fresh
                 THEN Put(st.data, ttype, IF ttype \in C_TYPEMAP THEN <<>> ELSE EmptyDict)
                 ELSE st.data
        torder1 == IF fresh THEN Append(st.torder, ttype) ELSE st.torder
        korder1 == IF fresh /\ ttype \notin C_TYPEMAP THEN Put(st.korder, ttype, <<>>)
                   ELSE st.korder
    IN  IF ttype \notin C_TYPEMAP
        THEN LET tid == IF Truthy(Get(tobj, "id")) THEN tobj["id"] ELSE Get(tobj, "abstract")
                 log2 == IF tid = None
                         THEN Append(log1, <<"warning", "expected id", fpath, ttype>>)
                         ELSE log1
                 log3 == IF ttype \in DOMAIN data1[ttype]
                         THEN Append(log2, <<"warning", "already exists", fpath, ttype, tid>>)
                         ELSE log2
             IN  [data |-> [data1 EXCEPT ![ttype] = Put(@, tid, tobj)],
                  torder |-> torder1,
                  korder |-> IF tid \in DOMAIN data1[ttype] THEN korder1
                             ELSE [korder1 EXCEPT ![ttype] = Append(@, tid)],
                  log |-> log3]
        ELSE [data |-> [data1 EXCEPT ![ttype] = Append(@, tobj)],
              torder |-> torder1, korder |-> korder1, log |-> log1]

\* the loop over tobj of _load_one_json from element k on: the store it
\* leaves and whether it raised (tobj.get on a value that is no object)
RECURSIVE LoadItems(_, _, _, _)
LoadItems(st, items, k, fpath) ==
    IF k > Len(items) THEN [st |-> st, raised |-> FALSE]
    ELSE IF ~items[k].isobj THEN [st |-> st, raised |-> TRUE]
    ELSE LoadItems(LoadObj(st, items[k].val, fpath), items, k + 1, fpath)

\* _load_one_json: the store it leaves, the value it returns, whether it raised
LoadOneJson(st, file) ==
    IF file.tag = "bad"
    THEN [st |-> [st EXCEPT !.log = Append(@, <<"error", "failed to load", file.path>>)],
          ret |-> FALSE, raised |-> FALSE]
    ELSE LET r == LoadItems(st, file.items, 1, file.path)
         IN  [st |-> r.st, ret |-> TRUE, raised |-> r.raised]

\* GameData.__init__ calls _recurse_load_dir on these, in this order
SubPaths == <<"mapgen", "overmap">>

\* one iteration of the loop over tfile of _recurse_load_dir
RecurseLoadDirFile ==
    /\ pc = "load"
    /\ fi <= Len(dirs[SubPaths[di]])
    /\ LET file == dirs[SubPaths[di]][fi]
           r == LoadOneJson([data |-> data, torder |-> torder, korder |-> korder,
                             log |-> log], file)
       IN  IF ~file.json
           THEN UNCHANGED <<storeVars, log, jtotal, jfailed, pc, result>>
           ELSE /\ data' = r.st.data
                /\ torder' = r.st.torder
                /\ korder' = r.st.korder
                /\ log' = r.st.log
                /\ IF r.raised
                   THEN /\ pc' = "raised"
                        /\ result' = "AttributeError"
                        /\ UNCHANGED <<jtotal, jfailed>>
                   ELSE /\ jfailed' = IF r.ret THEN jfailed ELSE jfailed + 1
                        /\ jtotal' = jtotal + 1
                        /\ UNCHANGED <<pc, result>>
    /\ fi' = fi + 1
    /\ UNCHANGED <<resolveVars, tileVars, instVars, dirs, di, rets>>

\* _recurse_load_dir returns jfailed; __init__ goes on to the next call
RecurseLoadDirReturn ==
    /\ pc = "load"
    /\ fi > Len(dirs[SubPaths[di]])
    /\ rets' = Append(rets, jfailed)
    /\ IF di < Len(SubPaths)
       THEN /\ di' = di + 1
            /\ UNCHANGED pc
       ELSE /\ pc' = "resolve"
            /\ UNCHANGED di
    /\ fi' = 1
    /\ jtotal' = 0
    /\ jfailed' = 0
    /\ UNCHANGED <<storeVars, resolveVars, tileVars, instVars, dirs, result, log>>

\* ------------------------------------------------------------------------
\* parse_overmap.py.  A type string (omtype) is the sequence of its
\* characters, since the code takes it apart; a line-drawing glyph is named
\* by the second column of ULINES (VLINE for U+2502, and so on).
\* ------------------------------------------------------------------------

\* the tile side; 180 in the source (parse_overmap.py line 33), scaled down
OMT_SZ == 2

\* range(-10, 11)
ZMin == -10
ZMax == 10

\* ULINES, in the order of the dict: key, glyph, connectivity bits
ULINES ==
    << [key |-> <<"e", "n", "d", "_", "s", "o", "u", "t", "h">>, sym |-> "VLINE", bits |-> 10],
       [key |-> <<"e", "n", "d", "_", "n", "o", "r", "t", "h">>, sym |-> "VLINE", bits |-> 10],
       [key |-> <<"n", "s">>, sym |-> "VLINE", bits |-> 10],
       [key |-> <<"e", "n", "d", "_", "w", "e", "s", "t">>, sym |-> "HLINE", bits |-> 5],
       [key |-> <<"e", "n", "d", "_", "e", "a", "s", "t">>, sym |-> "HLINE", bits |-> 5],
       [key |-> <<"e", "w">>, sym |-> "HLINE", bits |-> 5],
       [key |-> <<"n", "e">>, sym |-> "LLCORNER", bits |-> 12],
       [key |-> <<"e", "s">>, sym |-> "ULCORNER", bits |-> 6],
       [key |-> <<"s", "w">>, sym |-> "URCORNER", bits |-> 3],
       [key |-> <<"w", "n">>, sym |-> "LRCORNER", bits |-> 9],
       [key |-> <<"n", "e", "s">>, sym |-> "LTEE", bits |-> 14],
       [key |-> <<"n", "e", "w">>, sym |-> "BTEE", bits |-> 13],
       [key |-> <<"n", "s", "w">>, sym |-> "RTEE", bits |-> 11],
       [key |-> <<"e", "s", "w">>, sym |-> "TTEE", bits |-> 7],
       [key |-> <<"i", "s", "o", "l", "a", "t", "e", "d">>, sym |-> "PLUS", bits |-> 15],
       [key |-> <<"n", "e", "s", "w">>, sym |-> "PLUS", bits |-> 15] >>

\* UHOMES and URDIST, in the order of the dicts
UHOMES ==
    << [key |-> <<"n", "o", "r", "t", "h">>, sym |-> "^"],
       [key |-> <<"s", "o", "u", "t", "h">>, sym |-> "v"],
       [key |-> <<"e", "a", "s", "t">>, sym |-> ">"],
       [key |-> <<"w", "e", "s", "t">>, sym |-> "<"] >>

URDIST ==
    << [key |-> <<"n", "o", "r", "t", "h">>, dist |-> 0],
       [key |-> <<"w", "e", "s", "t">>, dist |-> 1],
       [key |-> <<"s", "o", "u", "t", "h">>, dist |-> 2],
       [key |-> <<"e", "a", "s", "t">>, dist |-> 3] >>

Keys(table) == {table[i].key : i \in 1..Len(table)}

\* EndsWith without the underscore
EndsWithBare(s, tu) ==
    /\ Len(s) >= Len(tu)
    /\ SubSeq(s, Len(s) - Len(tu) + 1, Len(s)) = tu

\* s.endswith('_' + tu)
EndsWith(s, tu) ==
    LET suf == <<"_">> \o tu IN
    /\ Len(s) >= Len(suf)
    /\ SubSeq(s, Len(s) - Len(suf) + 1, Len(s)) = suf

\* where $ of a Python regular expression matches in s: at the end, and
\* before a newline that is the last character
DollarEnds(s) ==
    {Len(s)} \cup (IF Len(s) > 0 /\ s[Len(s)] = "\n" THEN {Len(s) - 1} ELSE {})

\* where the regular expression _(alt1|alt2|...)$ matches in s
MatchPos(s, alts) ==
    {i \in 1..Len(s) : s[i] = "_" /\ \E e \in DollarEnds(s) : SubSeq(s, i + 1, e) \in alts}

\* r.search(s), and r.sub('', s): the leftmost match is the one removed,
\* and what follows it (the last newline) is kept
Search(s, alts) == MatchPos(s, alts) # {}
Sub(s, alts) ==
    IF MatchPos(s, alts) = {} THEN s
    ELSE LET i == CHOOSE j \in MatchPos(s, alts) : \A k \in MatchPos(s, alts) : j <= k
             e == CHOOSE f \in DollarEnds(s) : SubSeq(s, i + 1, f) \in alts
         IN  SubSeq(s, 1, i - 1) \o SubSeq(s, e + 1, Len(s))

\* the first entry of a table whose key the type string ends with, as a
\* sequence of at most one entry
FirstEndsWith(s, table) ==
    LET hits == {i \in 1..Len(table) : EndsWith(s, table[i].key)} IN
    IF hits = {} THEN <<>>
    ELSE <<table[CHOOSE i \in hits : \A j \in hits : i <= j]>>

\* uline_syms = {x[0]: x[2] for x in ULINES.values()}
UlineSyms ==
    [g \in {ULINES[i].sym : i \in 1..Len(ULINES)} |->
        LET last == CHOOSE i \in 1..Len(ULINES) :
                        /\ ULINES[i].sym = g
                        /\ \A j \in 1..Len(ULINES) : ULINES[j].sym = g => j <= i
        IN  ULINES[last].bits]

\* a & b, a | b and a << n on non-negative integers
RECURSIVE BitAnd(_, _)
BitAnd(a, b) ==
    IF a = 0 \/ b = 0 THEN 0
    ELSE (a % 2) * (b % 2) + 2 * BitAnd(a \div 2, b \div 2)

RECURSIVE BitOr(_, _)
BitOr(a, b) ==
    IF a = 0 THEN b
    ELSE IF b = 0 THEN a
    ELSE (IF a % 2 = 1 \/ b % 2 = 1 THEN 1 ELSE 0) + 2 * BitOr(a \div 2, b \div 2)

Shl(a, n) == a * 2 ^ n

\* Rotate shifting to the right
RotateRight(cr_bits, rot_dist) ==
    BitOr(BitAnd(Shl(cr_bits, 4) \div (2 ^ rot_dist), 15),
          BitAnd(Shl(cr_bits, 4) \div (2 ^ rot_dist), 240) \div 16)

\* cr_rot of resolve_symbols
Rotate(cr_bits, rot_dist) ==
    BitOr(BitAnd(Shl(cr_bits, rot_dist), 15),
          BitAnd(Shl(cr_bits, rot_dist), 240) \div 16)

\* [x for x in ULINES.values() if x[2] == cr_rot], as the glyphs x[0]
GlyphsOf(cr_rot) ==
    LET Hit(e) == e.bits = cr_rot IN
    [i \in 1..Len(SelectSeq(ULINES, Hit)) |-> SelectSeq(ULINES, Hit)[i].sym]

\* the characters of the ids the overmap_terrain stores of the model use
IdChars ==
    [rd |-> <<"r", "d">>, hs |-> <<"h", "s">>,
     rd_ns |-> <<"r", "d", "_", "n", "s">>, rd_end |-> <<"r", "d", "_", "e", "n", "d">>]

\* gdata.overmap_terrain.get(omtype): at most one definition
OtGet(ot, omtype) ==
    LET hits == {k \in DOMAIN ot : IdChars[k] = omtype} IN
    IF hits = {} THEN <<>> ELSE <<ot[CHOOSE k \in hits : TRUE]>>

\* SubmapTile.__init__; overmap_terrain is <<>> for None and <<definition>>
\* for a reference to a definition
SubmapTile(x, y, z, omtype) ==
    [x |-> x, y |-> y, z |-> z, omtype |-> omtype, overmap_terrain |-> <<>>, osym |-> None]

\* itoxy with the coordinates exchanged
itoxySwapped(idex) == <<idex \div OMT_SZ, idex % OMT_SZ>>

\* itoxy and xytoi
itoxy(idex) ==
    <<idex % OMT_SZ,
      IF idex >= 0 THEN idex \div OMT_SZ ELSE 0 - ((0 - idex) \div OMT_SZ)>>
xytoi(x, y) == y * OMT_SZ + x

\* the loop over tdex of parse: tlen cells of type ttype from idex on
RECURSIVE DecodeRun(_, _, _, _, _)
DecodeRun(level, idex, ttype, tlen, tz) ==
    IF tlen <= 0 THEN level
    ELSE DecodeRun(Put(level, idex, SubmapTile(itoxy(idex)[1], itoxy(idex)[2], tz, ttype)),
                   idex + 1, ttype, tlen - 1, tz)

\* the loop over the runs of one layer of parse, from run k on
RECURSIVE DecodeLayer(_, _, _, _, _)
DecodeLayer(level, tlayer, k, idex, tz) ==
    IF k > Len(tlayer) THEN level
    ELSE DecodeLayer(DecodeRun(level, idex, tlayer[k][1], tlayer[k][2], tz),
                     tlayer, k + 1,
                     idex + (IF tlayer[k][2] > 0 THEN tlayer[k][2] ELSE 0), tz)

\* OvermapTile.__init__ and parse: a file that cannot be read leaves tiles
\* alone; a layer beyond z = 10 raises KeyError
Parse ==
    /\ pc = "tile"
    /\ IF omjson.tag = "bad"
       THEN /\ log' = Append(log, <<"error", "failed to parse JSON file">>)
            /\ pc' = "parsed"
            /\ UNCHANGED tiles
       ELSE /\ tiles' = [tz \in (DOMAIN tiles) \cup (ZMin..ZMax) |->
                           IF tz \notin ZMin..ZMax THEN tiles[tz]
                           ELSE IF tz - ZMin + 1 <= Len(omjson.layers)
                                THEN DecodeLayer(EmptyDict, omjson.layers[tz - ZMin + 1], 1, 0, tz)
                                ELSE EmptyDict]
            /\ pc' = IF \E i \in 1..Len(omjson.layers) :
                           /\ i > ZMax - ZMin + 1
                           /\ \E k \in 1..Len(omjson.layers[i]) : omjson.layers[i][k][2] > 0
                     THEN "raised" ELSE "parsed"
            /\ UNCHANGED log
    /\ UNCHANGED <<storeVars, resolveVars, loadVars, instVars, omjson, rsret, zreq, omap, result>>

\* the body of the loops of resolve_symbols for one cell: the cell it
\* leaves, what it logs, and whether the glyph lookup raised IndexError
ResolveCell(cell, ot) ==
    LET om == cell.omtype
        lin == OtGet(ot, Sub(om, Keys(ULINES)))
        tu == FirstEndsWith(om, ULINES)
        omtype == Sub(om, Keys(UHOMES))
        found == OtGet(ot, omtype)
        attached == [cell EXCEPT !.overmap_terrain = found]
    IN  IF /\ Search(om, Keys(ULINES))
           /\ lin # <<>>
           /\ "LINEAR" \in Range(IF "flags" \in DOMAIN lin[1] THEN lin[1]["flags"] ELSE <<>>)
        THEN [cell |-> [cell EXCEPT !.overmap_terrain = lin,
                                    !.osym = IF tu # <<>> THEN tu[1].sym ELSE @],
              log |-> IF tu # <<>> THEN <<>>
                      ELSE << <<"warning", "no ULINES direction match", om>> >>,
              raised |-> FALSE]
        ELSE IF found = <<>>
        THEN [cell |-> attached,
              log |-> << <<"warning", "failed to get overmap_terrain", omtype>> >>,
              raised |-> FALSE]
        ELSE IF Get(found[1], "sym") = "^"
        THEN LET th == FirstEndsWith(om, UHOMES) IN
             [cell |-> IF th # <<>> THEN [attached EXCEPT !.osym = th[1].sym] ELSE attached,
              log |-> IF th # <<>> THEN <<>>
                      ELSE << <<"warning", "no UHOMES direction match", om>> >>,
              raised |-> FALSE]
        ELSE IF Get(found[1], "sym") \in DOMAIN UlineSyms
        THEN LET tr == FirstEndsWith(om, URDIST)
                 rot_dist == IF tr # <<>> THEN tr[1].dist ELSE 0
                 cr_bits == UlineSyms[found[1]["sym"]]
                 glyphs == GlyphsOf(Rotate(cr_bits, rot_dist))
             IN  IF glyphs = <<>>
                 THEN [cell |-> attached, log |-> <<>>, raised |-> TRUE]
                 ELSE [cell |-> [attached EXCEPT !.osym = glyphs[1]], log |-> <<>>,
                       raised |-> FALSE]
        ELSE [cell |-> attached, log |-> <<>>, raised |-> FALSE]

\* the loop over tindex of resolve_symbols for one level, from index k on
\* (the keys of a level are 0, 1, ... in insertion order); st is
\* [level, log, raised]
RECURSIVE ResolveLevel(_, _, _)
ResolveLevel(st, k, ot) ==
    IF st.raised \/ k \notin DOMAIN st.level THEN st
    ELSE LET r == ResolveCell(st.level[k], ot) IN
         ResolveLevel([level |-> Put(st.level, k, r.cell),
                       log |-> st.log \o r.log,
                       raised |-> r.raised], k + 1, ot)

\* the loop over zlevel of resolve_symbols, from level z on (the levels are
\* visited in insertion order, -10 upward); st is [tiles, log, raised]
RECURSIVE ResolveLevels(_, _, _)
ResolveLevels(st, z, ot) ==
    IF st.raised \/ z > ZMax THEN st
    ELSE IF z \notin DOMAIN st.tiles THEN ResolveLevels(st, z + 1, ot)
    ELSE LET r == ResolveLevel([level |-> st.tiles[z], log |-> st.log, raised |-> FALSE], 0, ot)
         IN  ResolveLevels([tiles |-> [st.tiles EXCEPT ![z] = r.level],
                            log |-> r.log, raised |-> r.raised], z + 1, ot)

\* NoTerrain taking an empty category for a missing one
NoTerrainOrEmpty ==
    \/ "overmap_terrain" \notin DOMAIN data
    \/ data["overmap_terrain"] = EmptyDict

\* GameData.__getattr__('overmap_terrain') raises KeyError
NoTerrain == "overmap_terrain" \notin DOMAIN data

\* resolve_symbols(gdata)
ResolveSymbols ==
    /\ pc = "parsed"
    /\ IF NoTerrain
       THEN /\ log' = Append(log, <<"error", "overmap_terrain not loaded">>)
            /\ rsret' = FALSE
            /\ pc' = "resolved"
            /\ UNCHANGED tiles
       ELSE LET r == ResolveLevels([tiles |-> tiles, log |-> log, raised |-> FALSE], ZMin,
                                   data["overmap_terrain"])
            IN  /\ tiles' = r.tiles
                /\ log' = r.log
                /\ IF r.raised
                   THEN /\ pc' = "raised"
                        /\ UNCHANGED rsret
                   ELSE /\ pc' = "resolved"
                        /\ rsret' = TRUE
    /\ UNCHANGED <<storeVars, resolveVars, loadVars, instVars, omjson, zreq, omap, result>>

\* OvermapTile.get_tile: at most one cell
GetTile(x, y, z) ==
    IF z \in DOMAIN tiles /\ xytoi(x, y) \in DOMAIN tiles[z]
    THEN <<tiles[z][xytoi(x, y)]>>
    ELSE <<>>

Unexplored == <<"#", "gray", "Unexplored", None>>
Unknown == <<"!", "gray", "Unknown", None>>
NoSymbol == <<"?", "gray", "Unknown", None>>

\* what the body of the loop over x of get_overmap appends to tline
Entries(x, y, z) ==
    LET ttile == GetTile(x, y, z) IN
    IF ttile = <<>> THEN <<Unexplored>>
    ELSE IF ttile[1].overmap_terrain = <<>> THEN <<Unknown>>
    ELSE LET omter == ttile[1].overmap_terrain[1]
             sym == IF ttile[1].osym # None THEN ttile[1].osym
                    ELSE IF "sym" \in DOMAIN omter THEN omter["sym"] ELSE "?"
             entry == <<sym, Get(omter, "color"), Get(omter, "name"), Get(omter, "id")>>
         IN  IF sym = None THEN <<entry, NoSymbol>> ELSE <<entry>>

\* tline of get_overmap from column x on
RECURSIVE Row(_, _, _)
Row(x, y, z) == IF x >= OMT_SZ THEN <<>> ELSE Entries(x, y, z) \o Row(x + 1, y, z)

\* what the body of the loop over x of get_overmap logs
EntryLog(x, y, z) ==
    LET ttile == GetTile(x, y, z) IN
    IF ttile = <<>> THEN <<>>
    ELSE IF ttile[1].overmap_terrain = <<>>
    THEN << <<"warning", "missing overmap_terrain data", x, y, ttile[1].omtype>> >>
    ELSE LET omter == ttile[1].overmap_terrain[1]
             sym == IF ttile[1].osym # None THEN ttile[1].osym
                    ELSE IF "sym" \in DOMAIN omter THEN omter["sym"] ELSE "?"
         IN  IF sym = None
             THEN << <<"warning", "missing symbol", x, y, ttile[1].omtype>> >>
             ELSE <<>>

\* what get_overmap logs from column x of row y on, row after row
RECURSIVE OvermapLog(_, _, _)
OvermapLog(x, y, z) ==
    IF y >= OMT_SZ THEN <<>>
    ELSE IF x >= OMT_SZ THEN OvermapLog(0, y + 1, z)
    ELSE EntryLog(x, y, z) \o OvermapLog(x + 1, y, z)

\* get_overmap(z)
GetOvermap ==
    /\ pc = "resolved"
    /\ \E z \in {ZMin, ZMin + 1, ZMax + 1} :
        /\ zreq' = z
        /\ omap' = [y \in 1..OMT_SZ |-> Row(0, y - 1, z)]
        /\ log' = log \o OvermapLog(0, 0, z)
    /\ pc' = "projected"
    /\ UNCHANGED <<storeVars, resolveVars, loadVars, instVars, omjson, tiles, rsret, result>>

\* render_overmap_ansi(z): get_overmap(z), then colorize on the glyph and
\* the color of the first OMT_SZ entries of each row; omap is left holding
\* the pairs colorize was called on, row by row
RenderOvermapAnsi ==
    /\ pc = "resolved"
    /\ \E z \in {ZMin, ZMin + 1} :
        /\ zreq' = z
        /\ omap' = [y \in 1..OMT_SZ |->
                      [x \in 1..OMT_SZ |-> <<Row(0, y - 1, z)[x][1], Row(0, y - 1, z)[x][2]>>]]
        /\ log' = log \o OvermapLog(0, 0, z)
    /\ pc' = "rendered"
    /\ UNCHANGED <<storeVars, resolveVars, loadVars, instVars, omjson, tiles, rsret, result>>

\* World.__init__ and load_world on a save directory that is missing, empty
\* or holds files: scandir raises on a missing directory and r_omap.match
\* raises on the first os.DirEntry it is given; load_world catches both,
\* logs the error and returns False, and no OvermapTile is made
WorldInit ==
    /\ pc = "resolved"
    /\ Len(oms) = 1
    /\ \E listing \in {"missing", "empty", "files"} :
        IF listing = "empty"
        THEN /\ result' = TRUE
             /\ UNCHANGED log
        ELSE /\ result' = FALSE
             /\ log' = Append(log, <<"error", "failed to load overmap tiles", listing>>)
    /\ pc' = "world"
    /\ UNCHANGED <<storeVars, resolveVars, loadVars, instVars, tileVars>>

\* ------------------------------------------------------------------------
\* Stores the resolver is run on: every store of three definitions, and one
\* long chain
\* ------------------------------------------------------------------------

SmallIds == {"a", "b", "c"}
NameOf == [x \in SmallIds |-> IF x = "a" THEN "name_a" ELSE IF x = "b" THEN "name_b" ELSE "name_c"]
ColorOf == [x \in SmallIds |-> IF x = "a" THEN "red" ELSE IF x = "b" THEN "green" ELSE "blue"]
FileOf == [x \in SmallIds |-> IF x = "a" THEN "a.json" ELSE IF x = "b" THEN "b.json" ELSE "c.json"]

\* a definition as _load_one_json stores it
SmallDef(x, abs, cf, col) ==
    LET r0 == [k \in {"type", "name", "__loaded_from"} |->
                 IF k = "type" THEN "overmap_terrain"
                 ELSE IF k = "name" THEN NameOf[x] ELSE FileOf[x]]
        r1 == Update(r0, IF abs THEN [k \in {"abstract"} |-> x] ELSE [k \in {"id"} |-> x])
        r2 == IF cf = None THEN r1 ELSE Update(r1, [k \in {"copy-from"} |-> cf])
    IN  IF col THEN Update(r2, [k \in {"color"} |-> ColorOf[x]]) ELSE r2

Perms(S) == {s \in [1..Cardinality(S) -> S] : \A i, j \in 1..Cardinality(S) : i # j => s[i] # s[j]}

MapgenList == <<[type |-> "mapgen", method |-> "json", __loaded_from |-> "m.json"]>>

InitSmall ==
    \E abs \in [SmallIds -> BOOLEAN],
       cf \in [SmallIds -> SmallIds \cup {None, "zz"}],
       col \in [SmallIds -> BOOLEAN],
       ord \in Perms(SmallIds) :
        /\ \A x \in SmallIds : cf[x] # x
        /\ data = [t \in {"mapgen", "overmap_terrain"} |->
                     IF t = "mapgen" THEN MapgenList
                     ELSE [x \in SmallIds |-> SmallDef(x, abs[x], cf[x], col[x])]]
        /\ torder = <<"mapgen", "overmap_terrain">>
        /\ korder = [t \in {"overmap_terrain"} |-> ord]

\* a chain d0 -> d1 -> ... -> d18 of copy-from: d0 has 18 ancestors, d1 has
\* 17 and d2 has 16; definition i has a field of its own, DeepField[i + 1]
DeepId == <<"d0", "d1", "d2", "d3", "d4", "d5", "d6", "d7", "d8", "d9",
            "d10", "d11", "d12", "d13", "d14", "d15", "d16", "d17", "d18">>
DeepField == <<"f0", "f1", "f2", "f3", "f4", "f5", "f6", "f7", "f8", "f9",
               "f10", "f11", "f12", "f13", "f14", "f15", "f16", "f17", "f18">>

DeepDef(i, abs) ==
    LET r0 == [k \in {"type", "__loaded_from", DeepField[i]} |->
                 IF k = "type" THEN "overmap_terrain"
                 ELSE IF k = "__loaded_from" THEN "deep.json" ELSE DeepId[i]]
        r1 == Update(r0, IF abs THEN [k \in {"abstract"} |-> DeepId[i]]
                         ELSE [k \in {"id"} |-> DeepId[i]])
    IN  IF i < Len(DeepId) THEN Update(r1, [k \in {"copy-from"} |-> DeepId[i + 1]]) ELSE r1

\* the orders the chain is loaded in: child first, root first, and the even
\* definitions child first followed by the odd ones root first
DeepOrders ==
    LET n == Len(DeepId) IN
    { [i \in 1..n |-> DeepId[i]],
      [i \in 1..n |-> DeepId[n + 1 - i]],
      [i \in 1..n |-> IF i <= (n + 1) \div 2 THEN DeepId[2 * i - 1]
                      ELSE DeepId[2 * (n + 1 - i)]] }

\* which definitions of the chain are abstract templates: none, all the
\* ancestors of d0, the upper half, or all
DeepAbstract ==
    LET n == Len(DeepId) IN
    { [i \in 1..n |-> FALSE], [i \in 1..n |-> i > 1], [i \in 1..n |-> i > 10],
      [i \in 1..n |-> TRUE] }

InitDeep ==
    \E abs \in DeepAbstract, ord \in DeepOrders :
        /\ data = [t \in {"overmap_terrain"} |->
                     [x \in Range(DeepId) |->
                        LET i == CHOOSE j \in 1..Len(DeepId) : DeepId[j] = x
                        IN  DeepDef(i, abs[i])]]
        /\ torder = <<"overmap_terrain">>
        /\ korder = [t \in {"overmap_terrain"} |-> ord]

InitResolve ==
    /\ InitSmall \/ InitDeep
    /\ loaded = data
    /\ pc = "resolve"
    /\ rpass = 0
    /\ ti = 0
    /\ ki = 0
    /\ result = None
    /\ log = <<>>
    /\ dirs = <<>>
    /\ di = 0
    /\ fi = 0
    /\ jtotal = 0
    /\ jfailed = 0
    /\ rets = <<>>
    /\ NoTile
    /\ FirstGameData

NextResolve == ResolveDeps \/ ResolveVisit \/ ResolvePassEnd

SpecResolve == InitResolve /\ [][NextResolve]_vars

\* ------------------------------------------------------------------------
\* Content databases GameData is constructed on
\* ------------------------------------------------------------------------

MaxFiles == 2

ObjB1 == [type |-> "overmap_terrain", abstract |-> "B1", color |-> "red"]
ObjC1 == [k \in {"type", "id", "copy-from", "name"} |->
            IF k = "type" THEN "overmap_terrain"
            ELSE IF k = "id" THEN "C1" ELSE IF k = "copy-from" THEN "B1" ELSE "Cave"]
ObjC1b == [type |-> "overmap_terrain", id |-> "C1", name |-> "Pit"]
ObjNoType == [name |-> "stray"]
ObjMapgen == [type |-> "mapgen", method |-> "json"]

\* a definition whose id is the JSON string None, and one that copies from it
ObjNamedNone == [type |-> "overmap_terrain", id |-> "'None", color |-> "red"]
ObjFromNone == [k \in {"type", "id", "copy-from", "name"} |->
                  IF k = "type" THEN "overmap_terrain"
                  ELSE IF k = "id" THEN "A" ELSE IF k = "copy-from" THEN "'None" ELSE "a"]

\* the elements a file of the overmap directory is made of
Elements ==
    {[isobj |-> TRUE, val |-> o] : o \in {ObjB1, ObjC1, ObjC1b, ObjNoType}}
        \cup {[isobj |-> FALSE, val |-> [text |-> "5"]]}

\* what a file of the overmap directory holds, its name and path aside
Contents ==
    {[tag |-> "list", items |-> s, json |-> TRUE] :
        s \in {<<>>} \cup {<<e>> : e \in Elements}
                     \cup {<<e1, e2>> : e1 \in Elements, e2 \in Elements}}
        \cup {[tag |-> "list", json |-> TRUE,
               items |-> <<[isobj |-> TRUE, val |-> ObjNamedNone],
                           [isobj |-> TRUE, val |-> ObjFromNone]>>],
              [tag |-> "object", items |-> <<[isobj |-> TRUE, val |-> ObjC1]>>, json |-> TRUE],
              [tag |-> "bad", items |-> <<>>, json |-> TRUE],
              [tag |-> "bad", items |-> <<>>, json |-> FALSE]}

OvermapPaths == <<"overmap/1", "overmap/2", "overmap/3", "overmap/4">>

OvermapDirs(n) ==
    {[i \in 1..n |-> [tag |-> c[i].tag, items |-> c[i].items, json |-> c[i].json,
                      path |-> OvermapPaths[i]]] : c \in [1..n -> Contents]}

MapgenDirs ==
    {<<[tag |-> "list", items |-> <<[isobj |-> TRUE, val |-> ObjMapgen]>>, json |-> TRUE,
        path |-> "mapgen/1"]>>,
     <<[tag |-> "bad", items |-> <<>>, json |-> TRUE, path |-> "mapgen/1"]>>}

\* the first GameData of the process is constructed: _data is the empty
\* class attribute
InitLoad ==
    /\ data = EmptyDict
    /\ torder = <<>>
    /\ korder = EmptyDict
    /\ loaded = EmptyDict
    /\ pc = "load"
    /\ rpass = 0
    /\ ti = 0
    /\ ki = 0
    /\ result = None
    /\ log = <<>>
    /\ \E m \in MapgenDirs, n \in 0..MaxFiles : \E o \in OvermapDirs(n) :
        dirs = [mapgen |-> m, overmap |-> o]
    /\ di = 1
    /\ fi = 1
    /\ jtotal = 0
    /\ jfailed = 0
    /\ rets = <<>>
    /\ NoTile
    /\ FirstGameData

\* self._data of the i-th GameData: no method assigns the attribute on the
\* instance, so the lookup ends at the class attribute
DataOf(i) == IF "_data" \in DOMAIN gds[i] THEN gds[i]["_data"] ELSE data

ObjD1 == [type |-> "overmap_terrain", id |-> "D1", name |-> "Den"]

\* the overmap directory of the database a second GameData is constructed
\* on: empty, or one file that defines C1 again, or one that defines D1
OtherOvermapDirs ==
    {<<>>} \cup
    {<<[tag |-> "list", items |-> <<[isobj |-> TRUE, val |-> o]>>, json |-> TRUE,
        path |-> "overmap/5"]>> : o \in {ObjC1b, ObjD1}}

\* GameData.__init__ of a second instance, on another database, once the
\* first is constructed: it sets _gamedir and starts loading
GameDataInit ==
    /\ pc = "done"
    /\ Len(gds) = 1
    /\ gds' = Append(gds, [_gamedir |-> "db2"])
    /\ gdseen' = <<DataOf(1)>>
    /\ \E o \in OtherOvermapDirs : dirs' = [mapgen |-> <<>>, overmap |-> o]
    /\ pc' = "load"
    /\ di' = 1
    /\ fi' = 1
    /\ jtotal' = 0
    /\ jfailed' = 0
    /\ rets' = <<>>
    /\ result' = None
    /\ UNCHANGED <<storeVars, resolveVars, tileVars, oms, omseen, log>>

NextLoad ==
    \/ GameDataInit
    \/ RecurseLoadDirFile
    \/ RecurseLoadDirReturn
    \/ ResolveDeps
    \/ ResolveVisit
    \/ ResolvePassEnd

SpecLoad == InitLoad /\ [][NextLoad]_vars

\* ------------------------------------------------------------------------
\* Overmap tiles and terrain stores the tile operations are run on
\* ------------------------------------------------------------------------

MaxLayers == 2

\* a resolved terrain definition; flags = <<>> and sym = "absent" leave the
\* key out, sym = None is a JSON null
TileDef(id, flags, sym) ==
    LET r0 == [k \in {"id", "type", "name", "color", "__loaded_from"} |->
                 IF k = "id" THEN id
                 ELSE IF k = "type" THEN "overmap_terrain"
                 ELSE IF k = "name" THEN "Place"
                 ELSE IF k = "color" THEN "green" ELSE "overmap/1"]
        r1 == IF flags = <<>> THEN r0 ELSE Put(r0, "flags", flags)
    IN  IF sym = "absent" THEN r1 ELSE Put(r1, "sym", sym)

SymChoices == (DOMAIN UlineSyms) \cup {"^", ".", None, "absent"}
FlagChoices == {<<>>, <<"LINEAR">>, <<"NO_ROTATE">>}

\* type strings: a base, alone or followed by _ and a compass or linear
\* suffix, and two suffixed types that end in a newline
ProbeTypes ==
    {b \o suf : b \in {<<"r", "d">>, <<"h", "s">>, <<"z", "z">>},
                suf \in {<<>>} \cup {<<"_">> \o k : k \in Keys(UHOMES) \cup Keys(ULINES)}}
    \cup {<<"r", "d", "_", "n", "s", "\n">>, <<"h", "s", "_", "w", "e", "s", "t", "\n">>}

\* layers of two types whose runs fill the level, fall short of it, overrun
\* it, or hold an empty run
Layers(tA, tB) ==
    LET n == OMT_SZ * OMT_SZ IN
    { << <<tA, n>> >>,
      << <<tA, 1>>, <<tB, n - 1>> >>,
      << <<tA, 2>>, <<tB, 1>>, <<tA, n - 3>> >>,
      << <<tA, 0>>, <<tB, n>> >>,
      << <<tA, n - 1>> >>,
      << <<tA, n + 1>> >>,
      << >> }

LayerFiles(tA, tB) ==
    UNION {[1..n -> Layers(tA, tB)] : n \in 0..MaxLayers}

TypeHsWest == <<"h", "s", "_", "w", "e", "s", "t">>
TypeRdNs == <<"r", "d", "_", "n", "s">>

\* one definition against one type string filling the lowest level
InitProbe ==
    \E id \in DOMAIN IdChars, flags \in FlagChoices, sym \in SymChoices, t \in ProbeTypes :
        /\ data = [c \in {"overmap_terrain"} |-> [k \in {id} |-> TileDef(id, flags, sym)]]
        /\ korder = [c \in {"overmap_terrain"} |-> <<id>>]
        /\ torder = <<"overmap_terrain">>
        /\ omjson = [tag |-> "ok", layers |-> << << <<t, OMT_SZ * OMT_SZ>> >> >>]

\* every layout of the layers against a store without the terrain category,
\* with an empty one, with a house and a road, and with a house whose sym
\* is null
InitLayout ==
    /\ \/ /\ data = [c \in {"mapgen"} |-> MapgenList]
          /\ korder = EmptyDict
          /\ torder = <<"mapgen">>
       \/ /\ data = [c \in {"overmap_terrain"} |-> EmptyDict]
          /\ korder = [c \in {"overmap_terrain"} |-> <<>>]
          /\ torder = <<"overmap_terrain">>
       \/ /\ data = [c \in {"overmap_terrain"} |->
                       [k \in {"hs", "rd"} |->
                          IF k = "hs" THEN TileDef("hs", <<>>, "^")
                          ELSE TileDef("rd", <<"LINEAR">>, "HLINE")]]
          /\ korder = [c \in {"overmap_terrain"} |-> <<"hs", "rd">>]
          /\ torder = <<"overmap_terrain">>
       \/ /\ data = [c \in {"overmap_terrain"} |->
                       [k \in {"hs"} |-> TileDef("hs", <<>>, None)]]
          /\ korder = [c \in {"overmap_terrain"} |-> <<"hs">>]
          /\ torder = <<"overmap_terrain">>
    /\ \/ omjson = [tag |-> "bad", layers |-> <<>>]
       \/ \E f \in LayerFiles(TypeHsWest, TypeRdNs) \cup LayerFiles(TypeRdNs, <<"z", "z">>) :
            omjson = [tag |-> "ok", layers |-> f]

\* a store that is loaded and resolved, and the first OvermapTile of the
\* process about to be constructed on a save file
InitTile ==
    /\ InitProbe \/ InitLayout
    /\ loaded = data
    /\ pc = "tile"
    /\ rpass = 2
    /\ ti = Len(torder) + 1
    /\ ki = 1
    /\ result = TRUE
    /\ log = <<>>
    /\ dirs = <<>>
    /\ di = 0
    /\ fi = 0
    /\ jtotal = 0
    /\ jfailed = 0
    /\ rets = <<>>
    /\ tiles = EmptyDict
    /\ rsret = None
    /\ zreq = 0
    /\ omap = <<>>
    /\ gds = <<[_gamedir |-> "db1"]>>
    /\ oms = <<[x |-> 0, y |-> 0, filename |-> "o.0.0"]>>
    /\ gdseen = <<>>
    /\ omseen = <<>>

\* self.tiles of the i-th OvermapTile: no method assigns the attribute on
\* the instance, so the lookup ends at the class attribute
TilesOf(i) == IF "tiles" \in DOMAIN oms[i] THEN oms[i]["tiles"] ELSE tiles

\* the save file a second OvermapTile is constructed on: unreadable, without
\* layers, or with one cell
OtherTileFiles ==
    {[tag |-> "bad", layers |-> <<>>],
     [tag |-> "ok", layers |-> <<>>],
     [tag |-> "ok", layers |-> << << <<<<"z", "z">>, 1>> >> >>]}

\* OvermapTile.__init__ of a second instance, on another file, once the
\* first is parsed and resolved: it sets x, y and filename and goes on to
\* parse
OvermapTileInit ==
    /\ pc = "resolved"
    /\ Len(oms) = 1
    /\ oms' = Append(oms, [x |-> 1, y |-> 0, filename |-> "o.1.0"])
    /\ omseen' = <<TilesOf(1)>>
    /\ \E f \in OtherTileFiles : omjson' = f
    /\ pc' = "tile"
    /\ UNCHANGED <<storeVars, resolveVars, loadVars, tiles, rsret, zreq, omap, gds, gdseen,
                   result, log>>

NextTile ==
    \/ OvermapTileInit
    \/ Parse
    \/ ResolveSymbols
    \/ GetOvermap
    \/ RenderOvermapAnsi
    \/ WorldInit

SpecTile == InitTile /\ [][NextTile]_vars

\* ------------------------------------------------------------------------
\* What the claims speak of: the copy-from chain of a definition as it was
\* loaded, and the record the inheritance rule gives it
\* ------------------------------------------------------------------------

\* the ancestors of x in the dict d, nearest first, and how the chain ends:
\* "root" (an ancestor without copy-from), "missing" (a copy-from naming an
\* absent id) or "cycle"
RECURSIVE ChainFrom(_, _, _, _)
ChainFrom(d, x, seen, acc) ==
    IF ~Truthy(Get(d[x], "copy-from")) THEN [ids |-> acc, end |-> "root"]
    ELSE LET p == d[x]["copy-from"] IN
         IF p \notin DOMAIN d THEN [ids |-> acc, end |-> "missing"]
         ELSE IF p \in seen THEN [ids |-> acc, end |-> "cycle"]
         ELSE ChainFrom(d, p, seen \cup {p}, Append(acc, p))

Chain(d, x) == ChainFrom(d, x, {x}, <<>>)

\* the record with the fields of all the levels (x, then its ancestors ids,
\* nearest first), each field valued by the nearest level that defines it
Inherit(d, x, ids) ==
    LET levels == <<x>> \o ids IN
    [f \in UNION {DOMAIN d[levels[i]] : i \in 1..Len(levels)} |->
        LET n == CHOOSE i \in 1..Len(levels) :
                    /\ f \in DOMAIN d[levels[i]]
                    /\ \A j \in 1..(i - 1) : f \notin DOMAIN d[levels[j]]
        IN  d[levels[n]][f]]

DictTypes == {t \in DOMAIN loaded : t \notin C_TYPEMAP}

\* C1: after _resolve_deps, a definition whose copy-from chain is complete
\* and at most 16 ancestors long holds exactly the fields of itself and of
\* all its ancestors, each with the value of the nearest level defining it.
C1_Flattened ==
    pc = "done" =>
        \A t \in DictTypes : \A x \in DOMAIN loaded[t] :
            LET c == Chain(loaded[t], x) IN
            (c.end = "root" /\ Len(c.ids) <= 16) =>
                data[t][x] = Inherit(loaded[t], x, c.ids)

\* a child without a color whose parent and grandparent both define one, and
\* that has received the parent's
C1_Witness ==
    /\ pc = "done"
    /\ \E t \in DictTypes : \E x \in DOMAIN loaded[t] :
        LET c == Chain(loaded[t], x) IN
        /\ c.end = "root"
        /\ Len(c.ids) = 2
        /\ "color" \notin DOMAIN loaded[t][x]
        /\ "color" \in DOMAIN loaded[t][c.ids[1]]
        /\ "color" \in DOMAIN loaded[t][c.ids[2]]
        /\ data[t][x]["color"] = loaded[t][c.ids[1]]["color"]

\* a dict without the key x, and a key order without x
Without(d, x) == [y \in (DOMAIN d) \ {x} |-> d[y]]
OrderWithout(ord, x) == LET Keep(y) == y # x IN SelectSeq(ord, Keep)

\* both passes of _resolve_deps over one dict visited in the order ord
RECURSIVE RunPass(_, _, _, _)
RunPass(d, ord, k, p) ==
    IF k > Len(ord) THEN d ELSE RunPass(ResolveOne(d, ord[k], p), ord, k + 1, p)
RunResolve(d, ord) == RunPass(RunPass(d, ord, 1, 1), ord, 1, 2)

\* C3 as stated: a copy-from chain that ends at an absent id is resolved
\* partially (own fields plus those of the ancestors found before the break,
\* none when its own copy-from is the dangling one), _resolve_deps still
\* returns True, and every other definition is resolved as in the store
\* without the broken one.
C3_DanglingEveryOther ==
    pc = "done" =>
        /\ result = TRUE
        /\ \A t \in DictTypes : \A x \in DOMAIN loaded[t] :
            LET c == Chain(loaded[t], x) IN
            (c.end = "missing" /\ Len(c.ids) <= 16) =>
                /\ data[t][x] = Inherit(loaded[t], x, c.ids)
                /\ c.ids = <<>> => data[t][x] = loaded[t][x]
                /\ \A y \in (DOMAIN loaded[t]) \ {x} :
                        data[t][y] = RunResolve(Without(loaded[t], x),
                                                OrderWithout(korder[t], x))[y]

\* C3: a copy-from chain that ends at an absent id is resolved partially: the
\* definition holds its own fields and those of the ancestors found before
\* the break (none when its own copy-from is the dangling one);
\* _resolve_deps still returns True, and in both cases every other
\* definition that does not inherit from the broken one is resolved as in
\* the store without it.
C3_Dangling ==
    pc = "done" =>
        /\ result = TRUE
        /\ \A t \in DictTypes : \A x \in DOMAIN loaded[t] :
            LET c == Chain(loaded[t], x) IN
            (c.end = "missing" /\ Len(c.ids) <= 16) =>
                /\ data[t][x] = Inherit(loaded[t], x, c.ids)
                /\ c.ids = <<>> => data[t][x] = loaded[t][x]
                /\ \A y \in (DOMAIN loaded[t]) \ {x} :
                        x \notin Range(Chain(loaded[t], y).ids) =>
                            data[t][y] = RunResolve(Without(loaded[t], x),
                                                    OrderWithout(korder[t], x))[y]

\* a chain broken one level up whose child has received the parent's color,
\* beside a definition whose own copy-from dangles, that is left as loaded
\* and is as the store without the child resolves it
C3_Witness ==
    /\ pc = "done"
    /\ \E t \in DictTypes : \E x, y \in DOMAIN loaded[t] :
        LET c == Chain(loaded[t], x) IN
        /\ c.end = "missing"
        /\ Len(c.ids) = 1
        /\ y = c.ids[1]
        /\ "color" \notin DOMAIN loaded[t][x]
        /\ "color" \in DOMAIN loaded[t][y]
        /\ data[t][x]["color"] = loaded[t][y]["color"]
        /\ data[t][y] = loaded[t][y]
        /\ data[t][y] = RunResolve(Without(loaded[t], x), OrderWithout(korder[t], x))[y]

\* C4: in an acyclic chain with more than 16 ancestors, a field defined only
\* by ancestors more than 16 hops above a definition is absent from its
\* record once both passes have run, in every visiting order.
C4_DepthCap ==
    pc = "done" =>
        \A t \in DictTypes : \A x \in DOMAIN loaded[t] :
            LET c == Chain(loaded[t], x) IN
            (c.end = "root" /\ Len(c.ids) > 16) =>
                \A f \in DOMAIN data[t][x] :
                    \/ f \in DOMAIN loaded[t][x]
                    \/ \E i \in 1..16 : f \in DOMAIN loaded[t][c.ids[i]]

\* C2: with an abstract base B1 (color red) in one file and a concrete C1
\* (copy-from B1, name Cave) in another, the record under C1 after load and
\* resolve takes color from B1, keeps its name and gains no other field from
\* B1: it is not flagged abstract.
C2_EndToEnd ==
    (/\ pc = "done"
     /\ Len(dirs.overmap) = 2
     /\ dirs.overmap[1].items = <<[isobj |-> TRUE, val |-> ObjB1]>>
     /\ dirs.overmap[2].items = <<[isobj |-> TRUE, val |-> ObjC1]>>) =>
        LET rec == data["overmap_terrain"]["C1"] IN
        /\ rec["color"] = "red"
        /\ rec["name"] = "Cave"
        /\ "abstract" \notin DOMAIN rec
        /\ DOMAIN rec = (DOMAIN ObjC1) \cup {"__loaded_from", "color"}

\* a file that fails to load: it cannot be opened or parsed, or it holds a
\* value that is no definition object
FailedFile(f) == f.tag = "bad" \/ \E i \in 1..Len(f.items) : ~f.items[i].isobj

\* the records of the store, of every ttype
StoredRecords ==
    UNION {IF t \in C_TYPEMAP THEN Range(data[t]) ELSE {data[t][x] : x \in DOMAIN data[t]}
            : t \in DOMAIN data}

\* C9: whichever files of a directory fail to load, _recurse_load_dir goes
\* through all of them, no exception escapes, the store holds a record for
\* every object of a good file and none from a failed file, and the value
\* returned is the number of failed files.
C9_FailureIsolation ==
    /\ pc # "raised"
    /\ \A k \in 1..Len(rets) :
        LET files == dirs[SubPaths[k]] IN
        rets[k] = Cardinality({i \in 1..Len(files) : files[i].json /\ FailedFile(files[i])})
    /\ pc = "resolve" =>
        \A k \in 1..Len(SubPaths) :
            LET files == dirs[SubPaths[k]] IN
            \A i \in 1..Len(files) :
                IF files[i].json /\ ~FailedFile(files[i])
                THEN \A j \in 1..Len(files[i].items) :
                        LET o == files[i].items[j].val
                            ttype == Get(o, "type")
                        IN  /\ ttype \in DOMAIN data
                            /\ ttype \notin C_TYPEMAP =>
                                 (IF Truthy(Get(o, "id")) THEN o["id"] ELSE Get(o, "abstract"))
                                     \in DOMAIN data[ttype]
                            /\ ttype \in C_TYPEMAP =>
                                 Put(o, "__loaded_from", files[i].path) \in Range(data[ttype])
                ELSE \A r \in StoredRecords : r["__loaded_from"] # files[i].path

\* ------------------------------------------------------------------------
\* Overmap tiles: what the claims speak of
\* ------------------------------------------------------------------------

Resolved == pc \in {"resolved", "projected"}

\* the cells of the tile
Cells == UNION {{tiles[z][i] : i \in DOMAIN tiles[z]} : z \in DOMAIN tiles}

North == <<"n", "o", "r", "t", "h">>
South == <<"s", "o", "u", "t", "h">>
East == <<"e", "a", "s", "t">>
West == <<"w", "e", "s", "t">>

\* the type string s is base + "_" + suf
HasSuffix(s, suf) ==
    /\ Len(s) > Len(suf)
    /\ s[Len(s) - Len(suf)] = "_"
    /\ \A i \in 1..Len(suf) : s[Len(s) - Len(suf) + i] = suf[i]

BaseOf(s, suf) == [i \in 1..(Len(s) - Len(suf) - 1) |-> s[i]]

\* the compass distance of a type string
Distance(s) ==
    IF HasSuffix(s, West) THEN 1
    ELSE IF HasSuffix(s, South) THEN 2
    ELSE IF HasSuffix(s, East) THEN 3
    ELSE 0

\* the type string with its compass suffix, if any, taken off
StripCompass(s) ==
    IF \E c \in {North, South, East, West} : HasSuffix(s, c)
    THEN BaseOf(s, CHOOSE c \in {North, South, East, West} : HasSuffix(s, c))
    ELSE s

\* bit i of the 4-bit mask b, and b rotated left by d within 4 bits
Bit(b, i) == (b \div (2 ^ i)) % 2
RotL4(b, d) ==
    Bit(b, (0 - d) % 4) + 2 * Bit(b, (1 - d) % 4)
        + 4 * Bit(b, (2 - d) % 4) + 8 * Bit(b, (3 - d) % 4)

LineGlyphs == {ULINES[i].sym : i \in 1..Len(ULINES)}
MaskOf(g) == ULINES[CHOOSE i \in 1..Len(ULINES) : ULINES[i].sym = g].bits

\* the cell was matched by the linear-suffix step: its type is a LINEAR
\* base followed by a linear suffix
LinearStep(c, ot) ==
    \E i \in 1..Len(ULINES) :
        /\ HasSuffix(c.omtype, ULINES[i].key)
        /\ \E k \in DOMAIN ot :
            /\ IdChars[k] = BaseOf(c.omtype, ULINES[i].key)
            /\ "flags" \in DOMAIN ot[k]
            /\ "LINEAR" \in Range(ot[k]["flags"])

\* the rotation rule holds of the cell c
RotationRule(c) ==
    LET sym == c.overmap_terrain[1]["sym"] IN
    /\ c.osym \in LineGlyphs
    /\ MaskOf(c.osym) = RotL4(MaskOf(sym), Distance(c.omtype))
    /\ Distance(c.omtype) = 0 => c.osym = sym
    /\ (sym = "VLINE" /\ Distance(c.omtype) = 1) => c.osym = "HLINE"
    /\ (sym = "HLINE" /\ Distance(c.omtype) = 1) => c.osym = "VLINE"

LineCell(c) ==
    /\ c.overmap_terrain # <<>>
    /\ "sym" \in DOMAIN c.overmap_terrain[1]
    /\ c.overmap_terrain[1]["sym"] \in LineGlyphs

\* every rotation of every line glyph is in the table, and a distance of 0
\* or 4 leaves the mask as it is
RotationTable ==
    \A g \in LineGlyphs :
        /\ \A d \in 0..3 : \E i \in 1..Len(ULINES) : ULINES[i].bits = RotL4(MaskOf(g), d)
        /\ Rotate(MaskOf(g), 0) = MaskOf(g)
        /\ Rotate(MaskOf(g), 4) = MaskOf(g)

\* C5 as stated: every cell whose matched definition has a line-drawing
\* default glyph gets the glyph whose mask is the default glyph's mask
\* rotated left by the distance of the type's compass suffix.
C5_RotationEveryCell ==
    /\ pc # "raised"
    /\ (Resolved /\ rsret = TRUE) =>
        /\ RotationTable
        /\ \A c \in Cells : LineCell(c) => RotationRule(c)

\* C5 amended: the same of every such cell that was not matched by the
\* linear-suffix step.
C5_Rotation ==
    /\ pc # "raised"
    /\ (Resolved /\ rsret = TRUE) =>
        /\ RotationTable
        /\ \A c \in Cells :
            (LineCell(c) /\ ~LinearStep(c, data["overmap_terrain"])) => RotationRule(c)

\* a west-facing cell of a definition drawn as the north-south line, shown
\* as the east-west line
C5_Witness ==
    /\ Resolved
    /\ rsret = TRUE
    /\ \E c \in Cells :
        /\ LineCell(c)
        /\ ~LinearStep(c, data["overmap_terrain"])
        /\ c.overmap_terrain[1]["sym"] = "VLINE"
        /\ HasSuffix(c.omtype, West)
        /\ c.osym = "HLINE"

\* the sum of the first k run lengths of a layer
RECURSIVE RunSum(_, _)
RunSum(tlayer, k) == IF k = 0 THEN 0 ELSE RunSum(tlayer, k - 1) + tlayer[k][2]

\* C6: a layer whose run lengths sum to side * side is decoded into exactly
\* one cell for each index 0 .. side * side - 1 of its level (the layers are
\* numbered from -10 upward); the cell at index i has the type of the run
\* covering i, the coordinates (i mod side, i div side) and the level as z,
\* and get_tile(x, y, z) returns the cell of index y * side + x.
C6_Decode ==
    (pc \in {"parsed", "resolved", "projected"} /\ omjson.tag = "ok") =>
        \A l \in 1..Len(omjson.layers) :
            LET tlayer == omjson.layers[l]
                z == l - 11
            IN  RunSum(tlayer, Len(tlayer)) = OMT_SZ * OMT_SZ =>
                    /\ DOMAIN tiles[z] = 0..(OMT_SZ * OMT_SZ - 1)
                    /\ \A i \in 0..(OMT_SZ * OMT_SZ - 1) :
                        LET k == CHOOSE j \in 1..Len(tlayer) :
                                    RunSum(tlayer, j - 1) <= i /\ i < RunSum(tlayer, j)
                        IN  /\ tiles[z][i].omtype = tlayer[k][1]
                            /\ tiles[z][i].x = i % OMT_SZ
                            /\ tiles[z][i].y = i \div OMT_SZ
                            /\ tiles[z][i].z = z
                    /\ \A x, y \in 0..(OMT_SZ - 1) :
                        /\ GetTile(x, y, z) = <<tiles[z][y * OMT_SZ + x]>>
                        /\ GetTile(x, y, z)[1].x = x
                        /\ GetTile(x, y, z)[1].y = y

\* a layer of three runs filling the second level, its last cell of the
\* third run's type
C6_Witness ==
    /\ pc = "parsed"
    /\ Len(omjson.layers) = 2
    /\ Len(omjson.layers[2]) = 3
    /\ RunSum(omjson.layers[2], 3) = OMT_SZ * OMT_SZ
    /\ omjson.layers[2][2][1] # omjson.layers[2][3][1]
    /\ tiles[-9][OMT_SZ * OMT_SZ - 1].omtype = omjson.layers[2][3][1]
    /\ tiles[-9][OMT_SZ * OMT_SZ - 1].y = OMT_SZ - 1

\* C7: in the output of get_overmap(z), the entry of a coordinate without a
\* raw cell is the unexplored tuple, that of a coordinate whose cell has no
\* definition is the unknown tuple, the two tuples differ, and that of a
\* coordinate whose cell has a definition with a glyph is (override glyph
\* if set, else the default glyph, color, name, id).
C7_Placeholders ==
    /\ Unexplored # Unknown
    /\ pc = "projected" =>
        \A x, y \in 0..(OMT_SZ - 1) :
            LET ttile == GetTile(x, y, zreq)
                entry == omap[y + 1][x + 1]
            IN  IF ttile = <<>> THEN entry = Unexplored
                ELSE IF ttile[1].overmap_terrain = <<>> THEN entry = Unknown
                ELSE LET omter == ttile[1].overmap_terrain[1] IN
                     IF ttile[1].osym # None
                     THEN entry = <<ttile[1].osym, omter["color"], omter["name"], omter["id"]>>
                     ELSE ("sym" \in DOMAIN omter /\ omter["sym"] # None) =>
                            entry = <<omter["sym"], omter["color"], omter["name"], omter["id"]>>

\* the type string has no definition: neither the linear-suffix step nor
\* the lookup of the type without its compass suffix finds one
Unmatched(c, ot) ==
    /\ ~LinearStep(c, ot)
    /\ \A k \in DOMAIN ot : IdChars[k] # StripCompass(c.omtype)

\* C8: resolve_symbols returns False exactly when the store has no
\* overmap_terrain category, and then every cell is as parse left it; with
\* the category it returns True whatever cells are unmatched, and every
\* unmatched cell has no definition attached.
C8_MissingCategory ==
    /\ pc # "raised"
    /\ Resolved =>
        /\ rsret = FALSE <=> "overmap_terrain" \notin DOMAIN data
        /\ rsret = FALSE =>
             \A c \in Cells : c.overmap_terrain = <<>> /\ c.osym = None
        /\ rsret = TRUE =>
             \A c \in Cells :
                Unmatched(c, data["overmap_terrain"]) => c.overmap_terrain = <<>>

\* an empty terrain category: every cell is unmatched, and resolve_symbols
\* has returned True
C8_Witness ==
    /\ pc = "resolved"
    /\ rsret = TRUE
    /\ "overmap_terrain" \in DOMAIN data
    /\ data["overmap_terrain"] = EmptyDict
    /\ Cells # {}
    /\ \A c \in Cells : c.overmap_terrain = <<>>

\* C10: a cell whose type is a LINEAR base of the terrain category followed
\* by a linear suffix gets the base's definition and the linear-table glyph
\* of that suffix, whatever the definition's default glyph; a
\* linear-suffixed type whose base is absent or not LINEAR gets the
\* definition, if any, of the type without its compass suffix.
C10_LinearStep ==
    (Resolved /\ rsret = TRUE) =>
        \A c \in Cells : \A i \in 1..Len(ULINES) :
            HasSuffix(c.omtype, ULINES[i].key) =>
                LET ot == data["overmap_terrain"]
                    base == {k \in DOMAIN ot : IdChars[k] = BaseOf(c.omtype, ULINES[i].key)}
                    other == {k \in DOMAIN ot : IdChars[k] = StripCompass(c.omtype)}
                IN  IF LinearStep(c, ot)
                    THEN /\ \E k \in base : c.overmap_terrain = <<ot[k]>>
                         /\ c.osym = ULINES[i].sym
                    ELSE /\ other = {} => c.overmap_terrain = <<>>
                         /\ \A k \in other : c.overmap_terrain = <<ot[k]>>

\* a LINEAR definition drawn as a pointer, on a type ending in _end_south:
\* the cell shows the end_south glyph, not the south pointer
C10_Witness ==
    /\ Resolved
    /\ rsret = TRUE
    /\ \E c \in Cells :
        /\ HasSuffix(c.omtype, <<"e", "n", "d", "_", "s", "o", "u", "t", "h">>)
        /\ LinearStep(c, data["overmap_terrain"])
        /\ c.overmap_terrain[1]["sym"] = "^"
        /\ c.osym = "VLINE"

\* ------------------------------------------------------------------------
\* The two passes
\* ------------------------------------------------------------------------

\* the definition x of the dict d is flagged abstract
Flagged(d, x) == Get(d[x], "abstract") # None

\* pass 2 has started
PassTwo == pc \in {"visit", "done"} /\ rpass = 2

\* C11: pass 1 runs over every category before pass 2 starts; pass 1
\* rewrites only definitions flagged abstract and pass 2 only definitions
\* not flagged abstract; from the start of pass 2 on, every abstract
\* definition with a copy-from and a complete chain holds its fully
\* flattened record, which is what a concrete definition inheriting from it
\* merges.
C11_TwoPass ==
    /\ [](PassTwo =>
            \A t \in DictTypes : \A x \in DOMAIN loaded[t] :
                LET c == Chain(loaded[t], x) IN
                (Flagged(loaded[t], x) /\ c.ids # <<>> /\ c.end = "root") =>
                    data[t][x] = Inherit(loaded[t], x, c.ids))
    /\ [][(rpass = 1 /\ rpass' = 2) => ti > Len(torder)]_vars
    /\ [][pc = "visit" =>
            \A t \in DictTypes : \A x \in DOMAIN data[t] :
                data'[t][x] # data[t][x] =>
                    /\ rpass = 1 => Flagged(data[t], x)
                    /\ rpass = 2 => ~Flagged(data[t], x)]_vars

\* ------------------------------------------------------------------------
\* Collisions on load
\* ------------------------------------------------------------------------

\* the category and the key an object is stored under: its id or, without
\* one, its abstract name
KeyOf(o) ==
    <<Get(o, "type"), IF Truthy(Get(o, "id")) THEN o["id"] ELSE Get(o, "abstract")>>

\* the keys of the id-indexed categories of the store
KeysOf(d) == UNION {{<<t, x>> : x \in DOMAIN d[t]} : t \in (DOMAIN d) \ C_TYPEMAP}

\* the elements of a file that the loop over tobj reaches: those before the
\* first one that is no object
Reached(items) ==
    LET bad == {i \in 1..Len(items) : ~items[i].isobj}
    IN  IF bad = {} THEN 1..Len(items)
        ELSE 1..((CHOOSE i \in bad : \A j \in bad : i <= j) - 1)

\* the reached elements of a file stored in an id-indexed category whose key
\* is present when they are inserted: in the store before the file, or
\* inserted by an earlier element of the file
Colliding(d, items) ==
    {i \in Reached(items) :
        /\ KeyOf(items[i].val)[1] \notin C_TYPEMAP
        /\ \/ KeyOf(items[i].val) \in KeysOf(d)
           \/ \E j \in 1..(i - 1) : KeyOf(items[j].val) = KeyOf(items[i].val)}

CollisionWarnings(l) == {i \in 1..Len(l) : l[i][2] = "already exists"}

\* C12: loading a file logs one collision warning for each definition it
\* inserts under a key already present in its category and none for the
\* others, and afterwards the key holds the definition inserted last.
C12_Collision ==
    [][(pc = "load" /\ fi <= Len(dirs[SubPaths[di]])) =>
        LET file == dirs[SubPaths[di]][fi] IN
        (file.json /\ file.tag # "bad") =>
            /\ Cardinality(CollisionWarnings(log')) - Cardinality(CollisionWarnings(log))
                    = Cardinality(Colliding(data, file.items))
            /\ \A i \in Reached(file.items) :
                LET k == KeyOf(file.items[i].val) IN
                (/\ k[1] \notin C_TYPEMAP
                 /\ \A j \in Reached(file.items) :
                        j > i => KeyOf(file.items[j].val) # k) =>
                    data'[k[1]][k[2]] = Put(file.items[i].val, "__loaded_from", file.path)]_vars

\* ------------------------------------------------------------------------
\* The shape of the grid
\* ------------------------------------------------------------------------

\* the entry that describes the position (x, y, z): the unexplored tuple
\* without a cell, the unknown tuple without a definition, the placeholder
\* for a definition without a usable glyph, and else the glyph with the
\* definition's color, name and id
Describes(x, y, z) ==
    LET ttile == GetTile(x, y, z) IN
    IF ttile = <<>> THEN Unexplored
    ELSE IF ttile[1].overmap_terrain = <<>> THEN Unknown
    ELSE LET omter == ttile[1].overmap_terrain[1]
             sym == IF ttile[1].osym # None THEN ttile[1].osym
                    ELSE IF "sym" \in DOMAIN omter THEN omter["sym"] ELSE "?"
         IN  IF sym = None THEN NoSymbol
             ELSE <<sym, Get(omter, "color"), Get(omter, "name"), Get(omter, "id")>>

\* C13: get_overmap(z) returns side rows of side entries each, and entry
\* [y][x] describes the position (x, y, z); a definition without a usable
\* glyph makes the entry of its own position the placeholder and adds,
\* drops or shifts no other entry.
C13_GridShape ==
    pc = "projected" =>
        /\ Len(omap) = OMT_SZ
        /\ \A y \in 0..(OMT_SZ - 1) :
            /\ Len(omap[y + 1]) = OMT_SZ
            /\ \A x \in 0..(OMT_SZ - 1) : omap[y + 1][x + 1] = Describes(x, y, zreq)

\* ------------------------------------------------------------------------
\* Instances
\* ------------------------------------------------------------------------

\* C14: every GameData holds a store of its own: constructing a second one
\* adds, replaces and removes nothing in what the first one shows, and the
\* second starts with no definition of the first.
C14_StoreIndependence ==
    Len(gds) >= 2 =>
        /\ DataOf(1) = gdseen[1]
        /\ (pc = "load" /\ di = 1 /\ fi = 1) => DataOf(2) = EmptyDict

\* the cell get_tile finds in the cells ts
CellOf(ts, x, y, z) ==
    IF z \in DOMAIN ts /\ (y * OMT_SZ + x) \in DOMAIN ts[z]
    THEN <<ts[z][y * OMT_SZ + x]>>
    ELSE <<>>

\* C15: constructing and parsing a second OvermapTile changes no cell of
\* the first: for every (x, y, z), get_tile on the first tile returns the
\* same cell, with the same type, definition and override glyph, as before.
C15_TileIsolation ==
    Len(oms) >= 2 =>
        \A z \in ZMin..ZMax : \A x, y \in 0..(OMT_SZ - 1) :
            CellOf(TilesOf(1), x, y, z) = CellOf(omseen[1], x, y, z)

\* ------------------------------------------------------------------------
\* The order of the visits
\* ------------------------------------------------------------------------

\* the orders a dict is compared over: every order of a small dict, and the
\* orders of DeepOrders for the long chain
OrdersOf(d) == IF Cardinality(DOMAIN d) <= 3 THEN Perms(DOMAIN d) ELSE DeepOrders

\* C16: the records _resolve_deps leaves do not depend on the order the
\* definitions of a category are visited in: run over the store as loaded
\* in any other order, it leaves the same record under every id.
C16_OrderIndependence ==
    pc = "done" =>
        \A t \in DictTypes : \A ord \in OrdersOf(loaded[t]) :
            \A x \in DOMAIN loaded[t] : RunResolve(loaded[t], ord)[x] = data[t][x]

====
